---- MODULE Spec2Model ----
(***************************************************************************)
(* Order lifecycle and payment settlement core of the e-commerce           *)
(* application: the Order state machine (apps/orders/models.py), the       *)
(* order service (apps/orders/services.py), the status-history receiver    *)
(* (apps/orders/signals.py) and the payment service and ledger             *)
(* (apps/payments/services.py, apps/payments/models.py).                   *)
(*                                                                         *)
(* Money is an integer number of 1/10000 currency units, so that           *)
(* Decimal('0.21') * subtotal is exact: 10.00 is 100000.                   *)
(***************************************************************************)
EXTENDS Integers, Sequences, FiniteSets, TLC

\* ------------------------------------------------------------------ bounds
MaxQty == 2
MaxInitStock == 2
MaxPayments == 2
MaxTxns == 3

\* ------------------------------------------------------- program constants
TaxRatePercent == 21
FreeShippingThreshold == 500000
StandardShipping == 59500

\* ------------------------------------------------------------- input data
Products == {"pA", "pB"}
UnitPrice == [pA |-> 100000, pB |-> 50000]
ItemSets == [Products -> 0..MaxQty]
\* The lifecycle specifications follow one order: an operation on an order
\* reads and writes that order's row, its items, its payments and the stock
\* of its products. Order ids a request may name: 0 for none, 2 for an id no
\* order has.
OrderIds == {1}
RequestOrderIds == {0, 1, 2}

STATUS_CHOICES ==
  {"draft", "pending_payment", "paid", "processing", "shipped", "delivered",
   "canceled", "refunded"}

TransitionNames ==
  {"submit", "mark_as_paid", "start_processing", "ship", "deliver", "cancel",
   "refund"}

VARIABLES
  orders,        \* orders_order rows, indexed by id (sequence of records)
  stock,         \* catalog_product.stock_quantity, per product
  track,         \* catalog_product.track_inventory, per product
  history,       \* orders_orderstatushistory rows, in insertion order
  payments,      \* payments_payment rows, indexed by id
  transactions,  \* payments_transaction rows, in insertion order
  now,           \* timezone.now(), a logical clock
  last,          \* outcome of the last operation: what its caller observes
  proc,          \* requests in flight: each one's position and local objects
  registry,      \* a PaymentProviderRegistry: _providers, _instances, _loaded
  cart           \* cart_cartitem rows of the customer's cart, per product

vars ==
  <<orders, stock, track, history, payments, transactions, now, last, proc,
    registry, cart>>

\* ok: the operation succeeded; raised: it ended with an exception (and not
\* with a returned failure result); err: the error it reported.
Result(op, arg, r) ==
  [op |-> op, arg |-> arg, ok |-> r.ok, raised |-> r.raised, err |-> r.err]

\* ------------------------------------------------------------ Order model
\* OrderItem.save: line_total = quantity * unit_price
line_total(o, p) == o.items[p] * o.unit_price[p]

RECURSIVE SumLineTotals(_, _)
SumLineTotals(o, ps) ==
  IF ps = {} THEN 0
  ELSE LET p == CHOOSE q \in ps : TRUE
       IN line_total(o, p) + SumLineTotals(o, ps \ {p})

items_exists(o) == \E p \in Products : o.items[p] > 0

\* A calculate_totals whose shipping is free only above the threshold.
calculate_totals_StrictThreshold(o) ==
  LET subtotal == SumLineTotals(o, Products)
      tax_total == (subtotal * TaxRatePercent) \div 100
      shipping_total == IF subtotal > FreeShippingThreshold
                        THEN 0 ELSE StandardShipping
  IN [o EXCEPT !.subtotal = subtotal,
               !.tax_total = tax_total,
               !.shipping_total = shipping_total,
               !.grand_total = subtotal + tax_total + shipping_total
                               - o.discount_total]

calculate_totals(o) ==
  LET subtotal == SumLineTotals(o, Products)
      tax_total == (subtotal * TaxRatePercent) \div 100
      shipping_total == IF subtotal >= FreeShippingThreshold
                        THEN 0 ELSE StandardShipping
  IN [o EXCEPT !.subtotal = subtotal,
               !.tax_total = tax_total,
               !.shipping_total = shipping_total,
               !.grand_total = subtotal + tax_total + shipping_total
                               - o.discount_total]

\* An order number "<prefix>-<YYYYMM>-<NNNN>": its year-month and its
\* sequence. The sequence is written with at least four digits, so the
\* order of the strings is the order of the sequences below 10000.
OrderNumber(ym, seq) == [ym |-> ym, seq |-> seq]

\* timezone.now().strftime('%Y%m') of the calls in this model
ThisMonth == 2

\* ords: the rows the query reads
generate_order_number(ords, ym) ==
  LET same == {ords[i].number.seq :
                 i \in {k \in DOMAIN ords : ords[k].number.ym = ym}}
  IN IF same = {} THEN OrderNumber(ym, 1)
     ELSE LET last_number == CHOOSE n \in same : \A m \in same : m <= n
          IN OrderNumber(ym, last_number + 1)

NewOrder(terms, items, discount, number) ==
  [status |-> "draft", number |-> number, terms_accepted |-> terms,
   items |-> items, unit_price |-> UnitPrice, subtotal |-> 0, tax_total |-> 0, shipping_total |-> 0,
   discount_total |-> discount, grand_total |-> 0,
   paid_at |-> 0, shipped_at |-> 0, delivered_at |-> 0]

\* A transition table that also lets a shipped order be canceled.
TransitionSource_CancelShipped ==
  [submit |-> {"draft"},
   mark_as_paid |-> {"pending_payment"},
   start_processing |-> {"paid"},
   ship |-> {"processing"},
   deliver |-> {"shipped"},
   cancel |-> {"draft", "pending_payment", "paid", "processing", "shipped"},
   refund |-> {"paid"}]

\* The @transition declarations: source states and target state.
TransitionSource ==
  [submit |-> {"draft"},
   mark_as_paid |-> {"pending_payment"},
   start_processing |-> {"paid"},
   ship |-> {"processing"},
   deliver |-> {"shipped"},
   cancel |-> {"draft", "pending_payment", "paid", "processing"},
   refund |-> {"paid"}]

TransitionTarget ==
  [submit |-> "pending_payment",
   mark_as_paid |-> "paid",
   start_processing |-> "processing",
   ship |-> "shipped",
   deliver |-> "delivered",
   cancel |-> "canceled",
   refund |-> "refunded"]

\* Method bodies: [ok, err, order, now]; t is the value of timezone.now().
Done(o, t) == [ok |-> TRUE, err |-> "", order |-> o, now |-> t]
Raise(o, t, err) == [ok |-> FALSE, err |-> err, order |-> o, now |-> t]

\* A submit that does not ask for items.
submit_NoItemsGuard(o, t) ==
  IF ~o.terms_accepted THEN Raise(o, t, "Terms must be accepted")
  ELSE Done(calculate_totals(o), t)

submit(o, t) ==
  IF ~o.terms_accepted THEN Raise(o, t, "Terms must be accepted")
  ELSE IF ~items_exists(o) THEN Raise(o, t, "Order must have items")
  ELSE Done(calculate_totals(o), t)

mark_as_paid(o, t) == Done([o EXCEPT !.paid_at = t + 1], t + 1)

start_processing(o, t) == Done(o, t)

ship(o, t) == Done([o EXCEPT !.shipped_at = t + 1], t + 1)

deliver(o, t) == Done([o EXCEPT !.delivered_at = t + 1], t + 1)

cancel(o, t) == Done(o, t)

refund(o, t) == Done(o, t)

MethodBody(name, o, t) ==
  CASE name = "submit" -> submit(o, t)
    [] name = "mark_as_paid" -> mark_as_paid(o, t)
    [] name = "start_processing" -> start_processing(o, t)
    [] name = "ship" -> ship(o, t)
    [] name = "deliver" -> deliver(o, t)
    [] name = "cancel" -> cancel(o, t)
    [] name = "refund" -> refund(o, t)

\* The @transition wrapper: refuse a status outside the source set, run the
\* method, set the target only when the method returned; fired tells
\* whether post_transition is sent.
transition(name, o, t) ==
  IF o.status \notin TransitionSource[name]
  THEN [ok |-> FALSE, err |-> "TransitionNotAllowed", order |-> o, now |-> t,
        fired |-> FALSE]
  ELSE LET r == MethodBody(name, o, t)
       IN IF r.ok
          THEN [ok |-> TRUE, err |-> "",
                order |-> [r.order EXCEPT !.status = TransitionTarget[name]],
                now |-> r.now, fired |-> TRUE]
          ELSE [ok |-> FALSE, err |-> r.err, order |-> o, now |-> t,
                fired |-> FALSE]

\* A receiver that records the new status as from_status.
track_order_status_change_TargetAsSource(h, oid, name, source, target) ==
  Append(h, [order |-> oid, from_status |-> target, to_status |-> target,
             name |-> name])

\* post_transition receiver
track_order_status_change(h, oid, name, source, target) ==
  Append(h, [order |-> oid, from_status |-> source, to_status |-> target,
             name |-> name])

\* Whether apps.orders connects the receiver at start-up (the import of
\* apps/orders/signals.py by the app configuration).
ReceiverConnected == TRUE

HistoryAfter(h, oid, name, o, r) ==
  IF r.fired /\ ReceiverConnected
  THEN track_order_status_change(h, oid, name, o.status, r.order.status)
  ELSE h

\* ---------------------------------------------------------- database state
\* The rows an operation reads and writes, as one value, so that a service
\* that calls another service is the composition of the two.
DB ==
  [orders |-> orders, stock |-> stock, history |-> history, now |-> now,
   payments |-> payments, transactions |-> transactions]

Commit(db) ==
  /\ orders' = db.orders
  /\ stock' = db.stock
  /\ history' = db.history
  /\ now' = db.now
  /\ payments' = db.payments
  /\ transactions' = db.transactions
  /\ UNCHANGED <<proc, registry, cart>>

\* Outcomes of a service call: it returned normally, it raised (an atomic
\* block is rolled back by the caller passing the state before the block), or
\* it returned a failure result.
Ok(db) == [ok |-> TRUE, raised |-> FALSE, err |-> "", db |-> db]
Fail(db, err) == [ok |-> FALSE, raised |-> TRUE, err |-> err, db |-> db]
Returned(db, err) == [ok |-> FALSE, raised |-> FALSE, err |-> err, db |-> db]

\* order.<name>() followed by order.save()
TransitionAndSave(db, oid, name) ==
  LET o == db.orders[oid]
      r == transition(name, o, db.now)
  IN IF r.ok
     THEN Ok([db EXCEPT !.orders[oid] = r.order,
                        !.history = HistoryAfter(db.history, oid, name, o, r),
                        !.now = r.now])
     ELSE Fail(db, r.err)

\* ---------------------------------------------------------- OrderService
\* A decrement that does not look at the stock that is left.
DecrementStock_NoStockCheck(st, o) ==
  [p \in Products |->
     IF o.items[p] > 0 /\ track[p] THEN st[p] - o.items[p] ELSE st[p]]

DecrementStock(st, o) ==
  [p \in Products |->
     IF o.items[p] > 0 /\ track[p] /\ st[p] >= o.items[p]
     THEN st[p] - o.items[p] ELSE st[p]]

\* A restore that does not look at track_inventory.
RestoreStock_Untracked(st, o) ==
  [p \in Products |-> IF o.items[p] > 0 THEN st[p] + o.items[p] ELSE st[p]]

RestoreStock(st, o) ==
  [p \in Products |->
     IF o.items[p] > 0 /\ track[p] THEN st[p] + o.items[p] ELSE st[p]]

\* A payment success that decrements stock whether or not the order was
\* marked as paid.
process_payment_success_Unguarded(db, oid) ==
  LET o == db.orders[oid]
      r == TransitionAndSave(db, oid, "mark_as_paid")
  IN Ok([(IF r.ok THEN r.db ELSE db) EXCEPT
           !.stock = DecrementStock(db.stock, o)])

process_payment_success(db, oid) ==
  LET o == db.orders[oid]
  IN IF o.status # "pending_payment"
     THEN Fail(db, "not in pending_payment status")
     ELSE LET r == TransitionAndSave(db, oid, "mark_as_paid")
          IN IF ~r.ok THEN Fail(db, r.err)
             ELSE Ok([r.db EXCEPT !.stock = DecrementStock(db.stock, o)])

cancel_order(db, oid) ==
  LET o == db.orders[oid]
  IN IF o.status \notin {"draft", "pending_payment", "paid", "processing"}
     THEN Fail(db, "cannot be canceled")
     ELSE LET restored ==
                IF o.status \in {"paid", "processing"}
                THEN [db EXCEPT !.stock = RestoreStock(db.stock, o)]
                ELSE db
              r == TransitionAndSave(restored, oid, "cancel")
          IN IF ~r.ok THEN Fail(db, r.err) ELSE r

\* ------------------------------------------------------- payment ledger
\* settings.PAYMENT_PROVIDERS: the provider codes the registry resolves
Registered == {"dummy"}
ExtIds == {"x1"}

get_provider(code) == code \in Registered

NewPayment(oid, code, amount) ==
  [order |-> oid, provider_code |-> code, external_id |-> "",
   amount |-> amount, status |-> "pending", failure_reason |-> ""]

create_transaction(db, pid, type, amount, success) ==
  [db EXCEPT !.transactions =
     Append(@, [payment |-> pid, type |-> type, amount |-> amount,
                success |-> success])]

can_be_captured(p) == p.status = "authorized"

can_be_refunded(p) == p.status \in {"completed", "captured"}

RECURSIVE SumRefunds(_, _, _)
SumRefunds(txns, pid, n) ==
  IF n = 0 THEN 0
  ELSE (IF txns[n].payment = pid /\ txns[n].type = "refund" /\ txns[n].success
        THEN txns[n].amount ELSE 0) + SumRefunds(txns, pid, n - 1)

\* A refunded_amount that counts no refund.
refunded_amount_Zero(db, pid) == 0

refunded_amount(db, pid) == SumRefunds(db.transactions, pid, Len(db.transactions))

refundable_amount(db, pid) ==
  IF ~can_be_refunded(db.payments[pid]) THEN 0
  ELSE db.payments[pid].amount - refunded_amount(db, pid)

WithExternalId(p, external_id) ==
  IF external_id # "" THEN [p EXCEPT !.external_id = external_id] ELSE p

mark_as_authorized(p, external_id) ==
  [WithExternalId(p, external_id) EXCEPT !.status = "authorized"]

mark_as_captured(p, external_id) ==
  [WithExternalId(p, external_id) EXCEPT !.status = "captured"]

mark_as_completed(p, external_id) ==
  [WithExternalId(p, external_id) EXCEPT !.status = "completed"]

mark_as_failed(p, reason) ==
  [p EXCEPT !.status = "failed", !.failure_reason = reason]

\* ------------------------------------------------------- PaymentService
\* An initiate_payment that creates the Payment before it resolves the
\* provider.
initiate_payment_CreateFirst(db, oid, code, start, ext) ==
  IF db.orders[oid].status # "pending_payment"
  THEN Fail(db, "not ready for payment")
  ELSE
    LET created == [db EXCEPT !.payments =
                      Append(@, NewPayment(oid, code, db.orders[oid].grand_total))]
    IN IF ~get_provider(code) THEN Fail(created, "provider not available")
       ELSE Ok(create_transaction(created, Len(created.payments), "authorize",
                                  db.orders[oid].grand_total, TRUE))

\* PaymentStartResult.error_message of a result with success false: "" when
\* the provider gives none
error_message(start) == IF start = "failure" THEN "provider error" ELSE ""

\* An initiate_payment that leaves the payment of a failed start as it was
\* created.
initiate_payment_KeepPending(db, oid, code, start, ext) ==
  IF db.orders[oid].status # "pending_payment"
  THEN Fail(db, "not ready for payment")
  ELSE IF ~get_provider(code)
  THEN Fail(db, "provider not available")
  ELSE
    LET pid == Len(db.payments) + 1
        created == [db EXCEPT !.payments =
                      Append(@, NewPayment(oid, code, db.orders[oid].grand_total))]
    IN IF start = "exception"
       THEN Returned(created, "exception")
       ELSE
         LET recorded == create_transaction(created, pid, "authorize",
                           db.orders[oid].grand_total, start = "success")
         IN IF start # "success"
            THEN Returned(recorded, error_message(start))
            ELSE Ok([recorded EXCEPT !.payments[pid] = WithExternalId(@, ext)])

\* start: what provider.start_payment does, "success", "failure" (a result
\* with success false and a message), "failure_silent" (success false, no
\* message) or "exception"; ext: the payment_id a provider result carries,
\* "" when it carries none.
initiate_payment(db, oid, code, start, ext) ==
  IF db.orders[oid].status # "pending_payment"
  THEN Fail(db, "not ready for payment")
  ELSE IF ~get_provider(code)
  THEN Fail(db, "provider not available")
  ELSE
    LET pid == Len(db.payments) + 1
        created == [db EXCEPT !.payments =
                      Append(@, NewPayment(oid, code, db.orders[oid].grand_total))]
    IN IF start = "exception"
       THEN Returned([created EXCEPT !.payments[pid] =
                        mark_as_failed(@, "exception")], "exception")
       ELSE
         LET recorded == create_transaction(created, pid, "authorize",
                           db.orders[oid].grand_total, start = "success")
         IN IF start # "success"
            THEN Returned([recorded EXCEPT !.payments[pid] =
                             mark_as_failed(@, IF error_message(start) = ""
                                               THEN "Unknown error"
                                               ELSE error_message(start))],
                          error_message(start))
            ELSE Ok([recorded EXCEPT !.payments[pid] = WithExternalId(@, ext)])

\* Payment.objects.get(external_id=...): the matching rows
ByExternalId(db, external_id) ==
  {i \in DOMAIN db.payments : db.payments[i].external_id = external_id}

\* order.payments.filter(provider_code=..., status__in=[...]).first(), under
\* the model's ordering ['-created_at']: the newest matching row, 0 if none
FirstOpenPayment(db, oid, code) ==
  LET m == {i \in DOMAIN db.payments :
              /\ db.payments[i].order = oid
              /\ db.payments[i].provider_code = code
              /\ db.payments[i].status \in {"pending", "authorized"}}
  IN IF m = {} THEN 0 ELSE CHOOSE i \in m : \A j \in m : j <= i

\* A process_webhook that keeps a record of a request it rejects.
process_webhook_RecordRejected(db, code, sig, res) ==
  IF ~get_provider(code) THEN Fail(db, "provider not available")
  ELSE IF ~sig
  THEN Returned(create_transaction(db, 0, "webhook", 0, FALSE),
                "Invalid signature")
  ELSE Returned(db, "exception")

\* sig: provider.validate_webhook_signature(request); res: what
\* provider.handle_webhook(request) gives: [raises, success, payment_id,
\* order_id, status]; order_id 0 stands for an empty order id.
process_webhook(db, code, sig, res) ==
  IF ~get_provider(code) THEN Fail(db, "provider not available")
  ELSE IF ~sig THEN Returned(db, "Invalid signature")
  ELSE IF res.raises THEN Returned(db, "exception")
  ELSE IF ~res.success THEN Returned(db, "provider error")
  ELSE
    LET byId == IF res.payment_id # "" THEN ByExternalId(db, res.payment_id)
                ELSE {}
    IN IF Cardinality(byId) > 1 THEN Returned(db, "MultipleObjectsReturned")
       ELSE
         LET pid == IF byId # {} THEN CHOOSE i \in byId : TRUE
                    ELSE IF res.order_id # 0 /\ res.order_id \in DOMAIN db.orders
                    THEN FirstOpenPayment(db, res.order_id, code)
                    ELSE 0
         IN IF pid = 0 THEN Returned(db, "Payment not found")
            ELSE
              LET recorded == create_transaction(db, pid, "webhook", 0, TRUE)
                  ext == IF res.payment_id # "" THEN res.payment_id
                         ELSE db.payments[pid].external_id
              IN CASE res.status = "completed" ->
                        LET marked == [recorded EXCEPT !.payments[pid] =
                                         mark_as_completed(@, ext)]
                            paid == process_payment_success(
                                      marked, marked.payments[pid].order)
                        IN IF paid.ok THEN Ok(paid.db)
                           ELSE Returned(marked, paid.err)
                   [] res.status = "failed" ->
                        Ok([recorded EXCEPT !.payments[pid] =
                              mark_as_failed(@, "Payment failed")])
                   [] res.status = "authorized" ->
                        Ok([recorded EXCEPT !.payments[pid] =
                              mark_as_authorized(@, ext)])
                   [] OTHER -> Ok(recorded)

\* A capture that does not look at can_be_captured.
capture_payment_AnyStatus(db, pid, outcome) ==
  IF ~get_provider(db.payments[pid].provider_code)
  THEN Fail(db, "provider not available")
  ELSE IF outcome = "exception" THEN Returned(db, "exception")
  ELSE
    LET oid == db.payments[pid].order
        recorded == create_transaction(db, pid, "capture",
                      IF outcome = "success" THEN db.orders[oid].grand_total
                      ELSE 0,
                      outcome = "success")
    IN IF outcome # "success" THEN Returned(recorded, "provider error")
       ELSE
         LET marked == [recorded EXCEPT !.payments[pid] =
                          mark_as_captured(@, "")]
         IN IF marked.orders[oid].status # "paid"
            THEN LET paid == process_payment_success(marked, oid)
                 IN IF paid.ok THEN Ok(paid.db)
                    ELSE Returned(marked, paid.err)
            ELSE Ok(marked)

\* outcome: what provider.capture does, "success", "failure" or "exception"
capture_payment(db, pid, outcome) ==
  IF ~can_be_captured(db.payments[pid]) THEN Fail(db, "cannot be captured")
  ELSE IF ~get_provider(db.payments[pid].provider_code)
  THEN Fail(db, "provider not available")
  ELSE IF outcome = "exception" THEN Returned(db, "exception")
  ELSE
    LET oid == db.payments[pid].order
        recorded == create_transaction(db, pid, "capture",
                      IF outcome = "success" THEN db.orders[oid].grand_total
                      ELSE 0,
                      outcome = "success")
    IN IF outcome # "success" THEN Returned(recorded, "provider error")
       ELSE
         LET marked == [recorded EXCEPT !.payments[pid] =
                          mark_as_captured(@, "")]
         IN IF marked.orders[oid].status # "paid"
            THEN LET paid == process_payment_success(marked, oid)
                 IN IF paid.ok THEN Ok(paid.db)
                    ELSE Returned(marked, paid.err)
            ELSE Ok(marked)

\* A refund that does not compare the amount with refundable_amount.
refund_payment_NoLimit(db, pid, amount, outcome) ==
  IF ~can_be_refunded(db.payments[pid]) THEN Fail(db, "cannot be refunded")
  ELSE IF amount <= 0 THEN Fail(db, "must be greater than zero")
  ELSE IF outcome = "exception" THEN Returned(db, "exception")
  ELSE IF outcome # "success"
  THEN Returned(create_transaction(db, pid, "refund", 0, FALSE),
                "provider error")
  ELSE Ok([create_transaction(db, pid, "refund", amount, TRUE)
             EXCEPT !.payments[pid].status = "refunded"])

\* amount: the requested amount, 0 for none given (None and Decimal 0 are
\* both false in `amount or payment.refundable_amount`)
refund_payment(db, pid, amount, outcome) ==
  IF ~can_be_refunded(db.payments[pid]) THEN Fail(db, "cannot be refunded")
  ELSE
    LET refund_amount == IF amount # 0 THEN amount
                         ELSE refundable_amount(db, pid)
    IN IF refund_amount <= 0 THEN Fail(db, "must be greater than zero")
       ELSE IF refund_amount > refundable_amount(db, pid)
       THEN Fail(db, "exceeds refundable amount")
       ELSE IF ~get_provider(db.payments[pid].provider_code)
       THEN Fail(db, "provider not available")
       ELSE IF outcome = "exception" THEN Returned(db, "exception")
       ELSE
         LET oid == db.payments[pid].order
             recorded == create_transaction(db, pid, "refund",
                           IF outcome = "success" THEN refund_amount ELSE 0,
                           outcome = "success")
         IN IF outcome # "success" THEN Returned(recorded, "provider error")
            ELSE
              LET saved == [recorded EXCEPT !.payments[pid].status =
                              IF refund_amount >= db.payments[pid].amount
                              THEN "refunded" ELSE "partially_refunded"]
              IN IF saved.payments[pid].status = "refunded"
                 THEN LET r == TransitionAndSave(saved, oid, "refund")
                      IN IF r.ok THEN Ok(r.db) ELSE Returned(saved, r.err)
                 ELSE Ok(saved)

\* ------------------------------------------------------------------- Init
Init ==
  /\ orders = <<>>
  /\ stock \in [Products -> 0..MaxInitStock]
  /\ track \in [Products -> BOOLEAN]
  /\ history = <<>>
  /\ payments = <<>>
  /\ transactions = <<>>
  /\ now = 0
  /\ last = [op |-> "init", arg |-> 0, ok |-> TRUE, raised |-> FALSE,
             err |-> ""]
  /\ proc = <<>>
  /\ registry = <<>>
  /\ cart = <<>>

\* Order.objects.create(...) followed by OrderItem.objects.create(...) for
\* each item, the way the admin and the tests build an order.
CreateOrder(terms, items) ==
  /\ Len(orders) < Cardinality(OrderIds)
  /\ orders' = Append(orders,
                 NewOrder(terms, items, 0,
                          generate_order_number(orders, ThisMonth)))
  /\ last' = Result("create_order", Len(orders) + 1, Ok(DB))
  /\ UNCHANGED <<stock, track, history, payments, transactions, now, proc,
                 registry, cart>>

\* order.<name>(); order.save() called directly on the order
OrderTransition(oid, name) ==
  /\ oid \in DOMAIN orders
  /\ LET r == TransitionAndSave(DB, oid, name)
     IN Commit(r.db) /\ last' = Result(name, oid, r)
  /\ UNCHANGED track

ProcessPaymentSuccess(oid) ==
  /\ oid \in DOMAIN orders
  /\ LET r == process_payment_success(DB, oid)
     IN Commit(r.db) /\ last' = Result("process_payment_success", oid, r)
  /\ UNCHANGED track

CancelOrder(oid) ==
  /\ oid \in DOMAIN orders
  /\ LET r == cancel_order(DB, oid)
     IN Commit(r.db) /\ last' = Result("cancel_order", oid, r)
  /\ UNCHANGED track

\* The bounds of the ledger: an operation that would add a row beyond them
\* is not taken.
WithinBounds(db) ==
  /\ Len(db.payments) <= MaxPayments
  /\ Len(db.transactions) <= MaxTxns

InitiatePayment(oid, code, start, ext) ==
  /\ oid \in DOMAIN orders
  /\ LET r == initiate_payment(DB, oid, code, start, ext)
     IN /\ WithinBounds(r.db)
        /\ Commit(r.db)
        /\ last' = Result("initiate_payment", oid, r)
  /\ UNCHANGED track

\* What a provider makes of a request: handle_webhook raises, reports a
\* failure, or gives a normalized result.
WebhookResult(raises, success, payment_id, order_id, status) ==
  [raises |-> raises, success |-> success, payment_id |-> payment_id,
   order_id |-> order_id, status |-> status]

WebhookStatuses == {"pending", "completed", "failed", "authorized"}

WebhookResults ==
  {WebhookResult(TRUE, FALSE, "", 0, "pending"),
   WebhookResult(FALSE, FALSE, "", 0, "pending")}
  \cup {WebhookResult(FALSE, TRUE, e, o, st) :
          e \in {""} \cup ExtIds, o \in RequestOrderIds,
          st \in WebhookStatuses}

\* The requests a webhook endpoint receives: for an unknown provider, with a
\* signature the provider rejects, or accepted and parsed by the provider.
WebhookRequests ==
  {[code |-> "unknown", sig |-> TRUE,
    res |-> WebhookResult(FALSE, TRUE, "", 0, "pending")],
   [code |-> "dummy", sig |-> FALSE,
    res |-> WebhookResult(FALSE, TRUE, "", 1, "completed")]}
  \cup {[code |-> "dummy", sig |-> TRUE, res |-> r] : r \in WebhookResults}

ProcessWebhook(code, sig, res) ==
  /\ LET r == process_webhook(DB, code, sig, res)
     IN /\ WithinBounds(r.db)
        /\ Commit(r.db)
        /\ last' = Result("process_webhook", 0, r)
  /\ UNCHANGED track

CapturePayment(pid, outcome) ==
  /\ pid \in DOMAIN payments
  /\ LET r == capture_payment(DB, pid, outcome)
     IN /\ WithinBounds(r.db)
        /\ Commit(r.db)
        /\ last' = Result("capture_payment", pid, r)
  /\ UNCHANGED track

\* The amounts a caller asks to refund: none, less than nothing, a part, the
\* whole payment, more than the payment.
RefundAmounts(p) ==
  {0, 0 - 10000, p.amount \div 2, p.amount, p.amount + 10000}

RefundPayment(pid, amount, outcome) ==
  /\ pid \in DOMAIN payments
  /\ LET r == refund_payment(DB, pid, amount, outcome)
     IN /\ WithinBounds(r.db)
        /\ Commit(r.db)
        /\ last' = Result("refund_payment", pid, r)
  /\ UNCHANGED track

ProviderOutcomes == {"success", "failure", "exception"}

\* The calls of initiate_payment: with an unknown provider code, or with a
\* provider that fails with or without a message, raises, or succeeds with or
\* without a payment id.
InitiateRequests ==
  {[code |-> "unknown", start |-> "success", ext |-> ""],
   [code |-> "dummy", start |-> "failure", ext |-> ""],
   [code |-> "dummy", start |-> "failure_silent", ext |-> ""],
   [code |-> "dummy", start |-> "exception", ext |-> ""]}
  \cup {[code |-> "dummy", start |-> "success", ext |-> e] :
           e \in {""} \cup ExtIds}

\* ------------------------------------------------- orders and inventory
NextOrders ==
  \/ \E terms \in BOOLEAN, items \in ItemSets : CreateOrder(terms, items)
  \/ \E oid \in OrderIds, name \in TransitionNames :
       OrderTransition(oid, name)
  \/ \E oid \in OrderIds : ProcessPaymentSuccess(oid)
  \/ \E oid \in OrderIds : CancelOrder(oid)

SpecOrders == Init /\ [][NextOrders]_vars

\* --------------------------------------------------- payments of an order
\* The orders of this specification: terms accepted, one tracked and one
\* untracked product, stock for none or for two of the order.
PaidItems == [pA |-> MaxQty, pB |-> 1]

InitPayments ==
  /\ orders = <<>>
  /\ stock \in {[p \in Products |-> s] : s \in {0, 2 * MaxQty}}
  /\ track = [pA |-> TRUE, pB |-> FALSE]
  /\ history = <<>>
  /\ payments = <<>>
  /\ transactions = <<>>
  /\ now = 0
  /\ last = [op |-> "init", arg |-> 0, ok |-> TRUE, raised |-> FALSE,
             err |-> ""]
  /\ proc = <<>>
  /\ registry = <<>>
  /\ cart = <<>>

NextPayments ==
  \/ CreateOrder(TRUE, PaidItems)
  \/ \E oid \in OrderIds, name \in TransitionNames :
       OrderTransition(oid, name)
  \/ \E oid \in OrderIds : CancelOrder(oid)
  \/ \E oid \in OrderIds, req \in InitiateRequests :
       InitiatePayment(oid, req.code, req.start, req.ext)
  \/ \E req \in WebhookRequests : ProcessWebhook(req.code, req.sig, req.res)
  \/ \E pid \in 1..MaxPayments, outcome \in ProviderOutcomes :
       CapturePayment(pid, outcome)
  \/ \E pid \in 1..MaxPayments, outcome \in ProviderOutcomes :
       \E amount \in IF pid \in DOMAIN payments
                     THEN RefundAmounts(payments[pid]) ELSE {0} :
         RefundPayment(pid, amount, outcome)

SpecPayments == InitPayments /\ [][NextPayments]_vars

\* ------------------------------------------------------- totals of an order
\* Unit prices and discounts of the orders whose totals are calculated: 5.00,
\* 9.99, 10.00, 20.00, 49.99 and 50.00; no discount, 1.00 and 5.00.
TotalsPrices == {50000, 99900, 100000, 200000, 499900, 500000}
TotalsDiscounts == {0, 10000, 50000}

InitTotals ==
  /\ \E items \in ItemSets, prices \in [Products -> TotalsPrices],
        discount \in TotalsDiscounts :
       orders = <<[NewOrder(TRUE, items, discount,
                            OrderNumber(ThisMonth, 1))
                     EXCEPT !.unit_price = prices]>>
  /\ stock = [p \in Products |-> 0]
  /\ track = [p \in Products |-> TRUE]
  /\ history = <<>>
  /\ payments = <<>>
  /\ transactions = <<>>
  /\ now = 0
  /\ last = [op |-> "init", arg |-> 0, ok |-> TRUE, raised |-> FALSE,
             err |-> ""]
  /\ proc = <<>>
  /\ registry = <<>>
  /\ cart = <<>>

\* order.calculate_totals(); order.save()
CalculateTotals(oid) ==
  /\ oid \in DOMAIN orders
  /\ orders' = [orders EXCEPT ![oid] = calculate_totals(@)]
  /\ last' = Result("calculate_totals", oid, Ok(DB))
  /\ UNCHANGED <<stock, track, history, payments, transactions, now, proc,
                 registry, cart>>

NextTotals == \E oid \in OrderIds : CalculateTotals(oid)

SpecTotals == InitTotals /\ [][NextTotals]_vars

\* -------------------------------------------- two webhooks for one order
\* Two requests run process_webhook for completed payments of the same
\* order, each in its own transaction. A transaction reads committed rows
\* (and its own writes), its writes are seen by the other when it commits,
\* and a write of a row waits while the other transaction holds an
\* uncommitted write of that row. The code takes no lock of its own.
RaceProcs == {1, 2}
RaceOrder == 1
RaceExtId == "x1"

Other(w) == CHOOSE v \in RaceProcs : v # w

InFlight(w) == proc[w].pc \notin {"lookup", "done"}

\* The order of the race: submitted, with stock for two of it.
PendingOrder ==
  [calculate_totals(NewOrder(TRUE, PaidItems, 0, OrderNumber(ThisMonth, 1)))
     EXCEPT !.status = "pending_payment"]

StartedPayment(ext) ==
  WithExternalId(NewPayment(RaceOrder, "dummy", PendingOrder.grand_total), ext)

\* byId: the request names the payment by its external id; otherwise it
\* names the order and the payment is looked up among the order's payments.
NewRequest(byId) ==
  [pc |-> "lookup", byId |-> byId, pid |-> 0, payment |-> <<>>,
   order |-> <<>>, wPayment |-> FALSE, wOrder |-> FALSE, hist |-> <<>>,
   stockRead |-> <<>>, wStock |-> {}, ok |-> FALSE, err |-> ""]

InitWebhookRace ==
  /\ orders = <<PendingOrder>>
  /\ stock = [p \in Products |-> 2 * MaxQty]
  /\ track \in {[pA |-> TRUE, pB |-> FALSE], [pA |-> TRUE, pB |-> TRUE]}
  /\ history = <<[order |-> RaceOrder, from_status |-> "draft",
                  to_status |-> "pending_payment", name |-> "submit"]>>
  /\ payments \in {<<StartedPayment(RaceExtId)>>,
                   <<StartedPayment(RaceExtId), StartedPayment("")>>}
  /\ transactions =
       [i \in DOMAIN payments |->
          [payment |-> i, type |-> "authorize",
           amount |-> PendingOrder.grand_total, success |-> TRUE]]
  /\ now = 0
  /\ last = [op |-> "init", arg |-> 0, ok |-> TRUE, raised |-> FALSE,
             err |-> ""]
  /\ proc \in [RaceProcs -> {NewRequest(b) : b \in BOOLEAN}]
  /\ registry = <<>>
  /\ cart = <<>>

Step(w, rec) ==
  /\ proc' = [proc EXCEPT ![w] = rec]
  /\ UNCHANGED <<orders, stock, track, history, payments, transactions, last,
                 registry, cart>>

\* Payment.objects.get(external_id=...), or Order.objects.get(id=...) and
\* order.payments.filter(...).first(): the payment of the second is tied to
\* the order object that was read.
WhLookup(w) ==
  /\ proc[w].pc = "lookup"
  /\ LET pid == IF proc[w].byId
                THEN CHOOSE i \in ByExternalId(DB, RaceExtId) : TRUE
                ELSE FirstOpenPayment(DB, RaceOrder, "dummy")
     IN IF pid = 0
        THEN Step(w, [proc[w] EXCEPT !.pc = "done",
                                     !.err = "Payment not found"])
             /\ UNCHANGED now
        ELSE Step(w, [proc[w] EXCEPT
                        !.pc = "record",
                        !.pid = pid,
                        !.payment = <<payments[pid]>>,
                        !.order = IF proc[w].byId THEN <<>>
                                  ELSE <<orders[RaceOrder]>>])
             /\ UNCHANGED now

\* Transaction.create_transaction(...) and payment.mark_as_completed(...):
\* the payment's row is written.
WhRecord(w) ==
  /\ proc[w].pc = "record"
  /\ ~(/\ InFlight(Other(w)) /\ proc[Other(w)].wPayment
       /\ proc[Other(w)].pid = proc[w].pid)
  /\ Step(w, [proc[w] EXCEPT
                !.pc = IF proc[w].order = <<>> THEN "load" ELSE "paid",
                !.payment = <<mark_as_completed(proc[w].payment[1],
                                                IF proc[w].byId THEN RaceExtId
                                                ELSE "")>>,
                !.wPayment = TRUE])
  /\ UNCHANGED now

\* payment.order, read when it is first used
WhLoadOrder(w) ==
  /\ proc[w].pc = "load"
  /\ Step(w, [proc[w] EXCEPT !.pc = "paid",
                             !.order = <<orders[proc[w].payment[1].order]>>])
  /\ UNCHANGED now

\* process_payment_success: the guard on the order object, mark_as_paid()
\* and save(); the exception of the guard is caught by process_webhook.
WhMarkPaid(w) ==
  /\ proc[w].pc = "paid"
  /\ LET o == proc[w].order[1]
         r == transition("mark_as_paid", o, now)
     IN IF o.status # "pending_payment"
        THEN /\ Step(w, [proc[w] EXCEPT
                           !.pc = "commit",
                           !.err = "not in pending_payment status"])
             /\ UNCHANGED now
        ELSE /\ ~(InFlight(Other(w)) /\ proc[Other(w)].wOrder)
             /\ Step(w, [proc[w] EXCEPT
                           !.pc = "readstock",
                           !.order = <<r.order>>,
                           !.wOrder = TRUE,
                           !.hist = HistoryAfter(<<>>, RaceOrder,
                                                 "mark_as_paid", o, r)])
             /\ now' = r.now

\* order.items.select_related('product'): the products as committed
WhReadStock(w) ==
  /\ proc[w].pc = "readstock"
  /\ Step(w, [proc[w] EXCEPT !.pc = "writestock", !.stockRead = <<stock>>])
  /\ UNCHANGED now

\* item.product.save(update_fields=['stock_quantity']) for each tracked
\* product with enough stock
WhWriteStock(w) ==
  /\ proc[w].pc = "writestock"
  /\ LET o == proc[w].order[1]
         read == proc[w].stockRead[1]
         written == {p \in Products :
                       o.items[p] > 0 /\ track[p] /\ read[p] >= o.items[p]}
     IN /\ ~(InFlight(Other(w)) /\ proc[Other(w)].wStock \cap written # {})
        /\ Step(w, [proc[w] EXCEPT
                      !.pc = "commit",
                      !.stockRead = <<DecrementStock(read, o)>>,
                      !.wStock = written,
                      !.ok = TRUE])
  /\ UNCHANGED now

\* process_webhook returns: the transaction commits its writes
WhCommit(w) ==
  /\ proc[w].pc = "commit"
  /\ LET me == proc[w]
     IN /\ payments' = [payments EXCEPT ![me.pid] = me.payment[1]]
        /\ transactions' =
             Append(transactions, [payment |-> me.pid, type |-> "webhook",
                                   amount |-> 0, success |-> TRUE])
        /\ orders' = IF me.wOrder
                     THEN [orders EXCEPT ![RaceOrder] = me.order[1]]
                     ELSE orders
        /\ history' = history \o me.hist
        /\ stock' = [p \in Products |->
                       IF p \in me.wStock THEN me.stockRead[1][p]
                       ELSE stock[p]]
        /\ last' = [op |-> "process_webhook", arg |-> w, ok |-> me.ok,
                    raised |-> FALSE, err |-> me.err]
  /\ proc' = [proc EXCEPT ![w].pc = "done"]
  /\ UNCHANGED <<track, now, registry, cart>>

NextWebhookRace ==
  \E w \in RaceProcs :
    \/ WhLookup(w)
    \/ WhRecord(w)
    \/ WhLoadOrder(w)
    \/ WhMarkPaid(w)
    \/ WhReadStock(w)
    \/ WhWriteStock(w)
    \/ WhCommit(w)

SpecWebhookRace == InitWebhookRace /\ [][NextWebhookRace]_vars

\* ------------------------------------------- concurrent order creations
\* Requests run create_order_from_cart at the same time, in the same month.
\* Order.save() reads the last number, then inserts the row; the unique
\* index on number refuses a row whose number another row has.
MaxCreators == 3
Creators == 1..MaxCreators

\* Carts of the creations
CartItems == {PaidItems, [pA |-> 1, pB |-> 0]}

\* Orders there are before: none, one of last month, one of this month, one
\* of each.
EarlierOrders ==
  {<<>>,
   <<NewOrder(TRUE, PaidItems, 0, OrderNumber(ThisMonth - 1, 2))>>,
   <<NewOrder(TRUE, PaidItems, 0, OrderNumber(ThisMonth, 1))>>,
   <<NewOrder(TRUE, PaidItems, 0, OrderNumber(ThisMonth - 1, 2)),
     NewOrder(TRUE, PaidItems, 0, OrderNumber(ThisMonth, 1))>>}

InitNumberRace ==
  /\ orders \in EarlierOrders
  /\ stock = [p \in Products |-> 2 * MaxQty]
  /\ track = [pA |-> TRUE, pB |-> FALSE]
  /\ history = <<>>
  /\ payments = <<>>
  /\ transactions = <<>>
  /\ now = 0
  /\ last = [op |-> "init", arg |-> 0, ok |-> TRUE, raised |-> FALSE,
             err |-> ""]
  /\ proc = [c \in Creators |->
               [pc |-> "start", number |-> OrderNumber(0, 0), id |-> 0]]
  /\ registry = <<>>
  /\ cart = <<>>

\* Order.save(): self.number = self.generate_order_number()
CreateGenerate(c) ==
  /\ proc[c].pc = "start"
  /\ proc' = [proc EXCEPT
                ![c].pc = "insert",
                ![c].number = generate_order_number(orders, ThisMonth)]
  /\ UNCHANGED <<orders, stock, track, history, payments, transactions, now,
                 last, registry, cart>>

\* Order.save(): super().save(), and the rest of create_order_from_cart; an
\* IntegrityError of the insert ends the creation, nothing is tried again.
CreateInsert(c, items) ==
  /\ proc[c].pc = "insert"
  /\ IF \E i \in DOMAIN orders : orders[i].number = proc[c].number
     THEN /\ proc' = [proc EXCEPT ![c].pc = "failed"]
          /\ last' = [op |-> "create_order_from_cart", arg |-> c,
                      ok |-> FALSE, raised |-> TRUE, err |-> "IntegrityError"]
          /\ UNCHANGED orders
     ELSE /\ orders' = Append(orders, calculate_totals(
                         NewOrder(FALSE, items, 0, proc[c].number)))
          /\ proc' = [proc EXCEPT ![c].pc = "done",
                                  ![c].id = Len(orders) + 1]
          /\ last' = [op |-> "create_order_from_cart", arg |-> c,
                      ok |-> TRUE, raised |-> FALSE, err |-> ""]
  /\ UNCHANGED <<stock, track, history, payments, transactions, now,
                 registry, cart>>

NextNumberRace ==
  \E c \in Creators :
    \/ CreateGenerate(c)
    \/ \E items \in CartItems : CreateInsert(c, items)

SpecNumberRace == InitNumberRace /\ [][NextNumberRace]_vars

\* ------------------------------------------------- the provider registry
\* Provider classes a caller may register: the class of the settings, a
\* second class with the same code, a class with a code of its own, and a
\* class that defines no code.
ProviderClasses == {"DummyProvider", "OtherDummy", "EuProvider", "NoCode"}
ClassCode ==
  [DummyProvider |-> "dummy", OtherDummy |-> "dummy",
   EuProvider |-> "dummy_eu", NoCode |-> ""]

\* settings.PAYMENT_PROVIDERS
SettingsProviders == {"DummyProvider"}

RegistryCodes == {"dummy", "dummy_eu", "nonexistent"}

\* config arguments: None, {} and a dict with an entry; `config or {}`
Configs == {"None", "empty", "test"}
ConfigOrEmpty(config) == IF config = "None" THEN "empty" ELSE config

MaxInstances == 3

\* f"{code}_{hash(...)}": the code and the hashed config
CacheKey(code, config) == <<code, ConfigOrEmpty(config)>>
CacheKeys == {CacheKey(c, g) : c \in RegistryCodes, g \in Configs}

\* key.startswith(f"{code}_") for the keys and codes of this model
KeyStartsWith(key, code) ==
  \/ key[1] = code
  \/ code = "dummy" /\ key[1] = "dummy_eu"

\* PaymentProviderRegistry.__init__; created counts the instances made, so
\* that two instances are told apart.
NewRegistry ==
  [providers |-> [c \in RegistryCodes |-> "none"],
   instances |-> [k \in CacheKeys |-> <<>>],
   loaded |-> FALSE, created |-> 0]

load_providers(reg) ==
  IF reg.loaded THEN reg
  ELSE [reg EXCEPT
          !.providers =
            [c \in RegistryCodes |->
               IF \E cls \in SettingsProviders : ClassCode[cls] = c
               THEN CHOOSE cls \in SettingsProviders : ClassCode[cls] = c
               ELSE reg.providers[c]],
          !.loaded = TRUE]

\* ret: <<>> for None, <<instance>> otherwise
Registry_get_provider(reg, code, config) ==
  LET r == load_providers(reg)
      key == CacheKey(code, config)
  IN IF r.instances[key] # <<>>
     THEN [reg |-> r, ret |-> r.instances[key]]
     ELSE IF r.providers[code] = "none"
     THEN [reg |-> r, ret |-> <<>>]
     ELSE LET instance == [class |-> r.providers[code],
                           config |-> ConfigOrEmpty(config),
                           id |-> r.created + 1]
          IN [reg |-> [r EXCEPT !.instances[key] = <<instance>>,
                                !.created = r.created + 1],
              ret |-> <<instance>>]

is_provider_available(reg, code) ==
  [reg |-> load_providers(reg),
   ret |-> load_providers(reg).providers[code] # "none"]

\* ok FALSE: ValueError
register_provider(reg, cls) ==
  IF ClassCode[cls] = "" THEN [reg |-> reg, ok |-> FALSE]
  ELSE [reg |-> [reg EXCEPT !.providers[ClassCode[cls]] = cls], ok |-> TRUE]

unregister_provider(reg, code) ==
  [reg EXCEPT !.providers[code] = "none",
              !.instances = [k \in CacheKeys |->
                               IF KeyStartsWith(k, code) THEN <<>>
                               ELSE reg.instances[k]]]

clear_cache(reg) == [reg EXCEPT !.instances = [k \in CacheKeys |-> <<>>]]

reload(reg) ==
  load_providers([reg EXCEPT
                    !.providers = [c \in RegistryCodes |-> "none"],
                    !.instances = [k \in CacheKeys |-> <<>>],
                    !.loaded = FALSE])

InitRegistry ==
  /\ orders = <<>>
  /\ stock = [p \in Products |-> 0]
  /\ track = [p \in Products |-> TRUE]
  /\ history = <<>>
  /\ payments = <<>>
  /\ transactions = <<>>
  /\ now = 0
  /\ last = [op |-> "init", arg |-> <<>>, ok |-> TRUE, ret |-> <<>>]
  /\ proc = <<>>
  /\ registry = NewRegistry
  /\ cart = <<>>

RegistryStep(reg, op, arg, ok, ret) ==
  /\ registry' = reg
  /\ last' = [op |-> op, arg |-> arg, ok |-> ok, ret |-> ret]
  /\ UNCHANGED <<orders, stock, track, history, payments, transactions, now,
                 proc, cart>>

RegisterProvider(cls) ==
  LET r == register_provider(registry, cls)
  IN RegistryStep(r.reg, "register_provider", <<cls>>, r.ok, <<>>)

UnregisterProvider(code) ==
  RegistryStep(unregister_provider(registry, code), "unregister_provider",
               <<code>>, TRUE, <<>>)

GetProvider(code, config) ==
  LET r == Registry_get_provider(registry, code, config)
  IN /\ r.reg.created <= MaxInstances
     /\ RegistryStep(r.reg, "get_provider", <<code, config>>, TRUE, r.ret)

IsProviderAvailable(code) ==
  LET r == is_provider_available(registry, code)
  IN RegistryStep(r.reg, "is_provider_available", <<code>>, TRUE, <<r.ret>>)

ClearCache == RegistryStep(clear_cache(registry), "clear_cache", <<>>, TRUE, <<>>)

Reload == RegistryStep(reload(registry), "reload", <<>>, TRUE, <<>>)

NextRegistry ==
  \/ \E cls \in ProviderClasses : RegisterProvider(cls)
  \/ \E code \in RegistryCodes : UnregisterProvider(code)
  \/ \E code \in RegistryCodes, config \in Configs : GetProvider(code, config)
  \/ \E code \in RegistryCodes : IsProviderAvailable(code)
  \/ ClearCache
  \/ Reload

SpecRegistry == InitRegistry /\ [][NextRegistry]_vars

\* ----------------------------------- initiate_payment, the call in flight
\* initiate_payment runs in one transaction (@transaction.atomic): the rows
\* it writes are committed when it returns. While provider.start_payment is
\* in flight the process may crash, or the transaction may be aborted, and
\* the uncommitted rows are gone.
IdleRequest == [pc |-> "idle", oid |-> 0, code |-> "", payment |-> <<>>]

InitInitiateCrash ==
  /\ orders = <<PendingOrder>>
  /\ stock \in {[p \in Products |-> s] : s \in {0, 2 * MaxQty}}
  /\ track = [pA |-> TRUE, pB |-> FALSE]
  /\ history = <<[order |-> 1, from_status |-> "draft",
                  to_status |-> "pending_payment", name |-> "submit"]>>
  /\ payments = <<>>
  /\ transactions = <<>>
  /\ now = 0
  /\ last = [op |-> "init", arg |-> 0, ok |-> TRUE, raised |-> FALSE,
             err |-> ""]
  /\ proc = IdleRequest
  /\ registry = <<>>
  /\ cart = <<>>

\* initiate_payment up to the call of provider.start_payment: the guards,
\* and Payment.objects.create inside the open transaction.
IpBegin(oid, code) ==
  /\ proc.pc # "calling"
  /\ oid \in DOMAIN orders
  /\ Len(payments) < MaxPayments
  /\ IF orders[oid].status # "pending_payment" \/ ~get_provider(code)
     THEN /\ proc' = IdleRequest
          /\ last' = Result("initiate_payment", oid,
                            initiate_payment(DB, oid, code, "success", ""))
     ELSE /\ proc' = [pc |-> "calling", oid |-> oid, code |-> code,
                      payment |-> <<NewPayment(oid, code,
                                               orders[oid].grand_total)>>]
          /\ UNCHANGED last
  /\ UNCHANGED <<orders, stock, track, history, payments, transactions, now,
                 registry, cart>>

\* provider.start_payment returns or raises; initiate_payment finishes and
\* its transaction commits.
IpReturn(start, ext) ==
  /\ proc.pc = "calling"
  /\ LET r == initiate_payment(DB, proc.oid, proc.code, start, ext)
     IN /\ WithinBounds(r.db)
        /\ orders' = r.db.orders
        /\ stock' = r.db.stock
        /\ history' = r.db.history
        /\ now' = r.db.now
        /\ payments' = r.db.payments
        /\ transactions' = r.db.transactions
        /\ last' = Result("initiate_payment", proc.oid, r)
  /\ proc' = [proc EXCEPT !.pc = "done"]
  /\ UNCHANGED <<track, registry, cart>>

\* The process crashes, or the transaction is aborted, during the call.
IpCrash ==
  /\ proc.pc = "calling"
  /\ proc' = [proc EXCEPT !.pc = "crashed", !.payment = <<>>]
  /\ last' = [op |-> "initiate_payment", arg |-> proc.oid, ok |-> FALSE,
              raised |-> TRUE, err |-> "crash"]
  /\ UNCHANGED <<orders, stock, track, history, payments, transactions, now,
                 registry, cart>>

\* The customer gives up: cancel_order between two calls
IpCancelOrder(oid) ==
  /\ proc.pc # "calling"
  /\ oid \in DOMAIN orders
  /\ LET r == cancel_order(DB, oid)
     IN /\ orders' = r.db.orders
        /\ stock' = r.db.stock
        /\ history' = r.db.history
        /\ now' = r.db.now
        /\ last' = Result("cancel_order", oid, r)
  /\ UNCHANGED <<track, payments, transactions, proc, registry, cart>>

NextInitiateCrash ==
  \/ \E oid \in OrderIds, code \in {"dummy", "unknown"} : IpBegin(oid, code)
  \/ \E req \in InitiateRequests : IpReturn(req.start, req.ext)
  \/ IpCrash
  \/ \E oid \in OrderIds : IpCancelOrder(oid)

SpecInitiateCrash == InitInitiateCrash /\ [][NextInitiateCrash]_vars

\* --------------------------------------------------------------- checkout
MaxOrders == 2

\* The required fields of billing_data and of shipping_data; an address is
\* the set of the required fields it gives a non-empty value.
RequiredFields ==
  {"first_name", "last_name", "address_line_1", "city", "state",
   "postal_code"}
Addresses == {RequiredFields, RequiredFields \ {"city"}, {}}

\* OrderService.validate_order_data: the keys of the errors
validate_order_data(billing_data, shipping_data) ==
  {<<"billing", f>> : f \in RequiredFields \ billing_data}
    \cup {<<"shipping", f>> : f \in RequiredFields \ shipping_data}

\* A cart: the quantity of each product's item, 0 for a product without one.
EmptyCart == [p \in Products |-> 0]
is_empty(crt) == \A p \in Products : crt[p] = 0

\* Cart.add_item
add_item(crt, product, quantity) ==
  [crt EXCEPT ![product] = @ + quantity]

\* Product.is_in_stock, allow_backorders being False
is_in_stock(st, trk, product) == ~trk[product] \/ st[product] > 0

\* OrderService.create_order_from_cart, one transaction
create_order_from_cart(db, crt, terms) ==
  IF is_empty(crt) THEN Fail(db, "Cannot create order from empty cart")
  ELSE Ok([db EXCEPT !.orders =
             Append(@, calculate_totals(
                         NewOrder(terms, crt, 0,
                                  generate_order_number(db.orders,
                                                        ThisMonth))))])

\* OrderService.checkout_flow: the rows and the cart it leaves, and whether
\* it raised. It is not one transaction: what create_order_from_cart
\* committed stays when a later step raises.
checkout_flow(db, crt, billing_data, shipping_data, terms) ==
  IF validate_order_data(billing_data, shipping_data) # {}
  THEN [res |-> Fail(db, "Validation errors"), cart |-> crt]
  ELSE IF is_empty(crt)
  THEN [res |-> Fail(db, "Cart is empty"), cart |-> crt]
  ELSE
    LET created == create_order_from_cart(db, crt, terms)
    IN IF ~created.ok THEN [res |-> created, cart |-> crt]
       ELSE
         LET submitted == TransitionAndSave(created.db,
                                            Len(created.db.orders), "submit")
         IN IF ~submitted.ok
            THEN [res |-> Fail(created.db, submitted.err), cart |-> crt]
            ELSE [res |-> submitted, cart |-> EmptyCart]

InitCheckout ==
  /\ orders = <<>>
  /\ stock \in {[p \in Products |-> s] : s \in {0, MaxInitStock}}
  /\ track = [pA |-> TRUE, pB |-> FALSE]
  /\ history = <<>>
  /\ payments = <<>>
  /\ transactions = <<>>
  /\ now = 0
  /\ last = [op |-> "init", arg |-> 0, ok |-> TRUE, raised |-> FALSE,
             err |-> ""]
  /\ proc = <<>>
  /\ registry = <<>>
  /\ cart = EmptyCart

\* CartService.add_product
AddProduct(product, quantity) ==
  /\ cart[product] + quantity <= MaxQty
  /\ IF is_in_stock(stock, track, product)
     THEN /\ cart' = add_item(cart, product, quantity)
          /\ last' = [op |-> "add_product", arg |-> 0, ok |-> TRUE,
                      raised |-> FALSE, err |-> ""]
     ELSE /\ cart' = cart
          /\ last' = [op |-> "add_product", arg |-> 0, ok |-> FALSE,
                      raised |-> TRUE, err |-> "Product is out of stock"]
  /\ UNCHANGED <<orders, stock, track, history, payments, transactions, now,
                 proc, registry>>

\* CartService.remove_product
RemoveProduct(product) ==
  /\ cart' = [cart EXCEPT ![product] = 0]
  /\ last' = [op |-> "remove_product", arg |-> 0, ok |-> TRUE,
              raised |-> FALSE, err |-> ""]
  /\ UNCHANGED <<orders, stock, track, history, payments, transactions, now,
                 proc, registry>>

CheckoutFlow(billing_data, shipping_data, terms) ==
  /\ Len(orders) < MaxOrders
  /\ LET r == checkout_flow(DB, cart, billing_data, shipping_data, terms)
     IN /\ orders' = r.res.db.orders
        /\ history' = r.res.db.history
        /\ now' = r.res.db.now
        /\ cart' = r.cart
        /\ last' = Result("checkout_flow", Len(orders) + 1, r.res)
  /\ UNCHANGED <<stock, track, payments, transactions, proc, registry>>

NextCheckout ==
  \/ \E product \in Products, quantity \in 1..MaxQty :
       AddProduct(product, quantity)
  \/ \E product \in Products : RemoveProduct(product)
  \/ \E billing_data \in Addresses, shipping_data \in Addresses,
        terms \in BOOLEAN :
       CheckoutFlow(billing_data, shipping_data, terms)

SpecCheckout == InitCheckout /\ [][NextCheckout]_vars

\* ------------------------------- payment retries and webhook deliveries
\* One order awaiting payment: initiate_payment is retried and webhooks are
\* delivered, each payment with its authorize Transaction and each accepted
\* webhook with its webhook Transaction.
MaxRetryTxns == 4

InitRetries ==
  /\ orders = <<PendingOrder>>
  /\ stock \in {[p \in Products |-> s] : s \in {0, 2 * MaxQty}}
  /\ track = [pA |-> TRUE, pB |-> FALSE]
  /\ history = <<[order |-> 1, from_status |-> "draft",
                  to_status |-> "pending_payment", name |-> "submit"]>>
  /\ payments = <<>>
  /\ transactions = <<>>
  /\ now = 0
  /\ last = [op |-> "init", arg |-> 0, ok |-> TRUE, raised |-> FALSE,
             err |-> ""]
  /\ proc = <<>>
  /\ registry = <<>>
  /\ cart = <<>>

RetryInitiate(oid, code, start, ext) ==
  /\ oid \in DOMAIN orders
  /\ LET r == initiate_payment(DB, oid, code, start, ext)
     IN /\ Len(r.db.payments) <= MaxPayments
        /\ Len(r.db.transactions) <= MaxRetryTxns
        /\ Commit(r.db)
        /\ last' = Result("initiate_payment", oid, r)
  /\ UNCHANGED track

DeliverWebhook(code, sig, res) ==
  /\ LET r == process_webhook(DB, code, sig, res)
     IN /\ Len(r.db.transactions) <= MaxRetryTxns
        /\ Commit(r.db)
        /\ last' = Result("process_webhook", 0, r)
  /\ UNCHANGED track

NextRetries ==
  \/ \E oid \in OrderIds, req \in InitiateRequests :
       RetryInitiate(oid, req.code, req.start, req.ext)
  \/ \E req \in WebhookRequests : DeliverWebhook(req.code, req.sig, req.res)

SpecRetries == InitRetries /\ [][NextRetries]_vars

\* ------------------------ process_payment_success, two orders at a time
\* Worker w runs process_payment_success on order w; both orders hold items
\* of the same products. Each call is one transaction (READ COMMITTED): a
\* write of a row waits for the other transaction's write of that row.
StockRaceItems == {[pA |-> 1, pB |-> 0], [pA |-> 1, pB |-> 1],
                   [pA |-> MaxQty, pB |-> 1]}

RaceOrderOf(items, seq) ==
  [calculate_totals(NewOrder(TRUE, items, 0, OrderNumber(ThisMonth, seq)))
     EXCEPT !.status = "pending_payment"]

NewPaymentSuccess(st) ==
  [pc |-> "paid", order |-> <<>>, hist |-> <<>>, stockRead |-> <<>>,
   wStock |-> {}, ok |-> FALSE, err |-> "", stock0 |-> st]

InitStockRace ==
  /\ orders \in {<<RaceOrderOf(i1, 1), RaceOrderOf(i2, 2)>> :
                   i1 \in StockRaceItems, i2 \in StockRaceItems}
  /\ stock \in [Products -> {1, 2 * MaxQty}]
  /\ track \in {[pA |-> TRUE, pB |-> FALSE], [pA |-> TRUE, pB |-> TRUE]}
  /\ history = <<[order |-> 1, from_status |-> "draft",
                  to_status |-> "pending_payment", name |-> "submit"],
                 [order |-> 2, from_status |-> "draft",
                  to_status |-> "pending_payment", name |-> "submit"]>>
  /\ payments = <<>>
  /\ transactions = <<>>
  /\ now = 0
  /\ last = [op |-> "init", arg |-> 0, ok |-> TRUE, raised |-> FALSE,
             err |-> ""]
  /\ proc = [w \in RaceProcs |-> NewPaymentSuccess(stock)]
  /\ registry = <<>>
  /\ cart = <<>>

\* The guard on order.status, order.mark_as_paid() and order.save(): the
\* row of the worker's own order.
PsMarkPaid(w) ==
  /\ proc[w].pc = "paid"
  /\ LET o == orders[w]
         r == transition("mark_as_paid", o, now)
     IN IF o.status # "pending_payment"
        THEN /\ Step(w, [proc[w] EXCEPT
                           !.pc = "commit",
                           !.err = "not in pending_payment status"])
             /\ UNCHANGED now
        ELSE /\ Step(w, [proc[w] EXCEPT
                           !.pc = "readstock",
                           !.order = <<r.order>>,
                           !.hist = HistoryAfter(<<>>, w, "mark_as_paid",
                                                 o, r)])
             /\ now' = r.now

\* order.items.select_related('product'): the products as committed
PsReadStock(w) ==
  /\ proc[w].pc = "readstock"
  /\ Step(w, [proc[w] EXCEPT !.pc = "writestock", !.stockRead = <<stock>>])
  /\ UNCHANGED now

\* item.product.stock_quantity -= item.quantity and
\* item.product.save(update_fields=['stock_quantity']) for each tracked
\* product with enough stock
PsWriteStock(w) ==
  /\ proc[w].pc = "writestock"
  /\ LET o == proc[w].order[1]
         read == proc[w].stockRead[1]
         written == {p \in Products :
                       o.items[p] > 0 /\ track[p] /\ read[p] >= o.items[p]}
     IN /\ ~(/\ proc[Other(w)].pc = "commit"
             /\ proc[Other(w)].wStock \cap written # {})
        /\ Step(w, [proc[w] EXCEPT
                      !.pc = "commit",
                      !.stockRead = <<DecrementStock(read, o)>>,
                      !.wStock = written,
                      !.ok = TRUE])
  /\ UNCHANGED now

\* process_payment_success returns: the transaction commits its writes
PsCommit(w) ==
  /\ proc[w].pc = "commit"
  /\ LET me == proc[w]
     IN /\ orders' = IF me.order # <<>>
                     THEN [orders EXCEPT ![w] = me.order[1]]
                     ELSE orders
        /\ history' = history \o me.hist
        /\ stock' = [p \in Products |->
                       IF p \in me.wStock THEN me.stockRead[1][p]
                       ELSE stock[p]]
        /\ last' = [op |-> "process_payment_success", arg |-> w,
                    ok |-> me.ok, raised |-> ~me.ok, err |-> me.err]
  /\ proc' = [proc EXCEPT ![w].pc = "done"]
  /\ UNCHANGED <<track, now, payments, transactions, registry, cart>>

NextStockRace ==
  \E w \in RaceProcs :
    \/ PsMarkPaid(w)
    \/ PsReadStock(w)
    \/ PsWriteStock(w)
    \/ PsCommit(w)

SpecStockRace == InitStockRace /\ [][NextStockRace]_vars

\* ------------------------------------------- refunds of a paid order
\* One order paid through one payment: refunds are asked for and webhooks
\* are delivered.
MaxRefundTxns == 6

\* The rows after initiate_payment and the webhook that completes the
\* payment, from an order awaiting payment.
PaidRows(st) ==
  LET submitted == [orders |-> <<PendingOrder>>, stock |-> st,
                    history |-> <<[order |-> 1, from_status |-> "draft",
                                   to_status |-> "pending_payment",
                                   name |-> "submit"]>>,
                    now |-> 0, payments |-> <<>>, transactions |-> <<>>]
      started == initiate_payment(submitted, 1, "dummy", "success", "x1")
  IN process_webhook(started.db, "dummy", TRUE,
                     WebhookResult(FALSE, TRUE, "x1", 1, "completed")).db

InitRefunds ==
  /\ track = [pA |-> TRUE, pB |-> FALSE]
  /\ \E st \in {[p \in Products |-> s] : s \in {0, 2 * MaxQty}} :
       /\ orders = PaidRows(st).orders
       /\ stock = PaidRows(st).stock
       /\ history = PaidRows(st).history
       /\ now = PaidRows(st).now
       /\ payments = PaidRows(st).payments
       /\ transactions = PaidRows(st).transactions
  /\ last = [op |-> "process_webhook", arg |-> 0, ok |-> TRUE,
             raised |-> FALSE, err |-> ""]
  /\ proc = <<>>
  /\ registry = <<>>
  /\ cart = <<>>

AskRefund(pid, amount, outcome) ==
  /\ pid \in DOMAIN payments
  /\ LET r == refund_payment(DB, pid, amount, outcome)
     IN /\ Len(r.db.transactions) <= MaxRefundTxns
        /\ Commit(r.db)
        /\ last' = Result("refund_payment", pid, r)
  /\ UNCHANGED track

LateWebhook(code, sig, res) ==
  /\ LET r == process_webhook(DB, code, sig, res)
     IN /\ Len(r.db.transactions) <= MaxRefundTxns
        /\ Commit(r.db)
        /\ last' = Result("process_webhook", 0, r)
  /\ UNCHANGED track

NextRefunds ==
  \/ \E pid \in DOMAIN payments, outcome \in ProviderOutcomes :
       \E amount \in RefundAmounts(payments[pid]) :
         AskRefund(pid, amount, outcome)
  \/ \E req \in WebhookRequests : LateWebhook(req.code, req.sig, req.res)

SpecRefunds == InitRefunds /\ [][NextRefunds]_vars

\* ==================================================================== claims
\* The transition table of the specification (section 4.1): the statuses
\* each named transition may start from.
TableSource(t) ==
  CASE t = "submit" -> {"draft"}
    [] t = "mark_as_paid" -> {"pending_payment"}
    [] t = "start_processing" -> {"paid"}
    [] t = "ship" -> {"processing"}
    [] t = "deliver" -> {"shipped"}
    [] t = "cancel" -> {"draft", "pending_payment", "paid", "processing"}
    [] t = "refund" -> {"paid"}

\* C1: a named transition called on an order whose status is not among the
\* transition's sources in the table fails with an error and leaves
\* order.status as it was; so no transition succeeds from delivered,
\* canceled or refunded.
C1_InvalidTransitionFails ==
  [][\A t \in TransitionNames :
       (last'.op = t /\ orders[last'.arg].status \notin TableSource(t))
         => /\ ~last'.ok
            /\ last'.raised
            /\ orders'[last'.arg].status = orders[last'.arg].status]_vars

\* C1 witness: cancel was refused on a delivered order.
C1_Witness ==
  /\ last.op = "cancel"
  /\ last.raised
  /\ last.err = "TransitionNotAllowed"
  /\ orders[last.arg].status = "delivered"

C7_CancelRestoresStock ==
  [][last'.op = "cancel_order" =>
       LET o == orders[last'.arg]
       IN IF o.status \in {"paid", "processing"}
          THEN /\ last'.ok
               /\ orders'[last'.arg].status = "canceled"
               /\ \A p \in Products :
                    stock'[p] = IF track[p] THEN stock[p] + o.items[p]
                                ELSE stock[p]
          ELSE IF o.status \in {"draft", "pending_payment"}
          THEN /\ last'.ok
               /\ orders'[last'.arg].status = "canceled"
               /\ stock' = stock
          ELSE /\ last'.raised
               /\ stock' = stock
               /\ orders' = orders]_vars

\* C7 witness: a processing order with an item of a tracked and an item of
\* an untracked product was canceled.
C7_Witness ==
  /\ last.op = "cancel_order" /\ last.ok
  /\ history[Len(history)].from_status = "processing"
  /\ \E p, q \in Products :
       /\ track[p] /\ orders[last.arg].items[p] = MaxQty
       /\ ~track[q] /\ orders[last.arg].items[q] > 0

\* C10: submit on a draft order succeeds, and moves it to pending_payment,
\* exactly when terms_accepted is true and the order has an item; otherwise
\* it raises and the order, its status and its totals are as before.
C10_SubmitGuards ==
  [][(last'.op = "submit" /\ orders[last'.arg].status = "draft") =>
       LET o == orders[last'.arg]
       IN IF o.terms_accepted /\ (\E p \in Products : o.items[p] > 0)
          THEN /\ last'.ok
               /\ orders'[last'.arg].status = "pending_payment"
          ELSE /\ last'.raised
               /\ submit(o, now).order = o
               /\ orders' = orders]_vars

\* C10 witness: submit was refused for an order with accepted terms and no
\* item; the order is a draft with its totals never computed.
C10_Witness ==
  /\ last.op = "submit" /\ last.raised
  /\ last.err = "Order must have items"
  /\ orders[last.arg].status = "draft"
  /\ orders[last.arg].terms_accepted
  /\ orders[last.arg].grand_total = 0

\* What a delivery of a webhook does to orders and stock, given what the
\* first delivery does to the stock of a tracked product p of order o.
WebhookEffect(first(_, _)) ==
  last'.op = "process_webhook" =>
    LET paidNow == {oid \in DOMAIN orders :
                      /\ orders[oid].status = "pending_payment"
                      /\ orders'[oid].status = "paid"}
    IN /\ \A oid \in DOMAIN orders :
            \/ oid \in paidNow
            \/ orders'[oid].status = orders[oid].status
       /\ Cardinality(paidNow) <= 1
       /\ paidNow = {} => stock' = stock
       /\ \A oid \in paidNow : \A p \in Products :
            stock'[p] = IF track[p] /\ orders[oid].items[p] > 0
                        THEN first(orders[oid], p) ELSE stock[p]

C4_InitiateGuards ==
  [][last'.op = "initiate_payment" =>
       \A oid \in OrderIds, req \in InitiateRequests :
         (/\ \/ orders[oid].status # "pending_payment"
             \/ req.code \notin Registered
          /\ InitiatePayment(oid, req.code, req.start, req.ext))
           => /\ last'.raised
              /\ payments' = payments
              /\ transactions' = transactions]_vars

\* C4 witness: initiate_payment was refused for a paid order that has its
\* one payment.
C4_Witness ==
  /\ last.op = "initiate_payment" /\ last.raised
  /\ last.err = "not ready for payment"
  /\ orders[last.arg].status = "paid"
  /\ Len(payments) = 1 /\ payments[1].status = "completed"

\* C8: in every state, refund_payment with an amount above
\* refundable_amount raises whatever the provider would answer (the provider
\* is not asked), and the rows after it are the rows before it: no
\* Transaction is added, no payment and no order changes.
C8_RefundAboveRefundableFails ==
  \A pid \in DOMAIN payments :
    \A amount \in RefundAmounts(payments[pid]) :
      amount > refundable_amount(DB, pid) =>
        \A outcome \in ProviderOutcomes :
          LET r == refund_payment(DB, pid, amount, outcome)
          IN r.raised /\ ~r.ok /\ r.db = DB

\* C8 witness: a refund of more than the amount of a completed payment was
\* refused.
C8_Witness ==
  /\ last.op = "refund_payment" /\ last.raised
  /\ last.err = "exceeds refundable amount"
  /\ payments[last.arg].status = "completed"
  /\ orders[payments[last.arg].order].status = "paid"

\* C9: calculate_totals sets subtotal to the sum of quantity x unit price
\* over the items, tax_total to 21% of subtotal exactly, shipping_total to
\* 0.00 when subtotal >= 50.00 and to 5.95 below (0.00 at 50.00, 5.95 at
\* 49.99), and grand_total to subtotal + tax_total + shipping_total -
\* discount_total; 2 x 10.00 and 1 x 5.00 without discount give 25.00, 5.25,
\* 5.95 and 36.20.
C9_CalculateTotals ==
  [][last'.op = "calculate_totals" =>
       LET o == orders[last'.arg]
           c == orders'[last'.arg]
           sum == o.items["pA"] * o.unit_price["pA"]
                  + o.items["pB"] * o.unit_price["pB"]
       IN /\ c.subtotal = sum
          /\ c.tax_total * 100 = sum * 21
          /\ c.shipping_total = IF sum >= 500000 THEN 0 ELSE 59500
          /\ sum = 500000 => c.shipping_total = 0
          /\ sum = 499900 => c.shipping_total = 59500
          /\ c.grand_total = c.subtotal + c.tax_total + c.shipping_total
                             - o.discount_total
          /\ c.discount_total = o.discount_total
          /\ (/\ o.items = [pA |-> 2, pB |-> 1]
              /\ o.unit_price = [pA |-> 100000, pB |-> 50000]
              /\ o.discount_total = 0)
               => /\ c.subtotal = 250000 /\ c.tax_total = 52500
                  /\ c.shipping_total = 59500 /\ c.grand_total = 362000]_vars

\* C9 witness: the totals of a discounted order of 2 x 20.00 and 1 x 10.00
\* were calculated: subtotal 50.00, free shipping.
C9_Witness ==
  /\ last.op = "calculate_totals"
  /\ orders[last.arg].items = [pA |-> 2, pB |-> 1]
  /\ orders[last.arg].unit_price = [pA |-> 200000, pB |-> 100000]
  /\ orders[last.arg].subtotal = 500000
  /\ orders[last.arg].shipping_total = 0
  /\ orders[last.arg].discount_total = 10000
  /\ orders[last.arg].grand_total = 595000

\* C5: of two webhook deliveries for the same order processed concurrently,
\* at most one moves the order from pending_payment to paid and at most one
\* decrements stock: the order has one row of history to paid, and no
\* product's stock is less than its stock before by more than the ordered
\* quantity.
C5_AtMostOneTransition ==
  /\ Cardinality({w \in RaceProcs :
                    proc[w].pc = "done" /\ proc[w].wOrder}) <= 1
  /\ Cardinality({w \in RaceProcs :
                    proc[w].pc = "done" /\ proc[w].wStock # {}}) <= 1
  /\ Cardinality({i \in DOMAIN history : history[i].to_status = "paid"}) <= 1
  /\ \A p \in Products : stock[p] >= 2 * MaxQty - PaidItems[p]

\* C6: for any interleaving of concurrent order creations in one month, no
\* two orders have the same number, and no creation ends refused: each one
\* that has ended has its own order.
C6_UniqueAndPersisted ==
  /\ \A i, j \in DOMAIN orders :
       orders[i].number = orders[j].number => i = j
  /\ \A c \in Creators :
       /\ proc[c].pc # "failed"
       /\ proc[c].pc = "done" =>
            /\ proc[c].id \in DOMAIN orders
            /\ orders[proc[c].id].number = proc[c].number
            /\ \A d \in Creators \ {c} :
                 proc[d].pc = "done" => proc[d].id # proc[c].id

\* C11 (a): after register_provider(C) the code of C is available and
\* get_provider of that code gives an instance of class C, for every config.
C11_RegisteredClassIsServed ==
  (last'.op = "register_provider" /\ last'.ok) =>
    LET cls == last'.arg[1]
    IN /\ is_provider_available(registry', ClassCode[cls]).ret
       /\ \A config \in Configs :
            LET got == Registry_get_provider(registry', ClassCode[cls], config)
            IN got.ret # <<>> /\ got.ret[1].class = cls

\* C11 (b): get_provider of a code that is not registered gives None.
C11_UnregisteredIsNone ==
  \A code \in RegistryCodes, config \in Configs :
    ~is_provider_available(registry', code).ret =>
      Registry_get_provider(registry', code, config).ret = <<>>

\* C11 (c): a get_provider that follows a get_provider with the same code
\* and config returns the same instance.
C11_SameInstance ==
  (last'.op = "get_provider" /\ last'.ret # <<>>) =>
    Registry_get_provider(registry', last'.arg[1], last'.arg[2]).ret
      = last'.ret

\* C11: in every state of a registry, after register_provider(C) the code of
\* C is available and get_provider of it returns an instance of C, also when
\* another class was registered and instantiated under that code before;
\* get_provider of an unregistered code returns None; repeated get_provider
\* calls with the same code and config return the same instance.
C11_Registry ==
  [][C11_RegisteredClassIsServed /\ C11_UnregisteredIsNone
     /\ C11_SameInstance]_vars

\* C12: process_webhook with a request whose signature the provider rejects
\* returns a failure result, whatever handle_webhook would make of the
\* request (it is not called), and changes no row: no Transaction is added,
\* no Payment, no Order and no stock changes.
C12_RejectedSignatureMutatesNothing ==
  [][last'.op = "process_webhook" =>
       \A req \in WebhookRequests :
         (/\ ~req.sig
          /\ get_provider(req.code)
          /\ ProcessWebhook(req.code, req.sig, req.res))
           => /\ ~last'.ok /\ ~last'.raised
              /\ \A res \in WebhookResults :
                   process_webhook(DB, req.code, req.sig, res)
                     = process_webhook(DB, req.code, req.sig, req.res)
              /\ UNCHANGED <<orders, stock, history, payments,
                             transactions>>]_vars

\* C12 witness: a completed webhook for a pending payment was rejected for
\* its signature; the payment is pending and the order awaits payment.
C12_Witness ==
  /\ last.op = "process_webhook" /\ ~last.ok /\ ~last.raised
  /\ last.err = "Invalid signature"
  /\ Len(payments) = 1 /\ payments[1].status = "pending"
  /\ orders[1].status = "pending_payment"
  /\ Len(transactions) = 1

\* C13: while provider.start_payment is in flight, and after a crash or an
\* abort during it, the committed rows hold a pending Payment of the order
\* the payment is for.
C13_PendingPaymentDurable ==
  proc.pc \in {"calling", "crashed"} =>
    \E i \in DOMAIN payments :
      payments[i].order = proc.oid /\ payments[i].status = "pending"

\* C14: every initiate_payment call that reaches provider.start_payment
\* records exactly one Transaction of type authorize for the new payment,
\* and its success flag is the provider's outcome, whether the provider
\* succeeds, fails or raises.
C14_AttemptRecorded ==
  [][last'.op = "initiate_payment" =>
       \A oid \in OrderIds, req \in InitiateRequests :
         (/\ orders[oid].status = "pending_payment"
          /\ get_provider(req.code)
          /\ InitiatePayment(oid, req.code, req.start, req.ext))
           => /\ Len(payments') = Len(payments) + 1
              /\ Len(transactions') = Len(transactions) + 1
              /\ SubSeq(transactions', 1, Len(transactions)) = transactions
              /\ LET t == transactions'[Len(transactions')]
                 IN /\ t.payment = Len(payments')
                    /\ t.type = "authorize"
                    /\ t.success = (req.start = "success")]_vars

\* C15: when provider.start_payment returns a failure or raises,
\* initiate_payment returns a failure result without raising, the new payment
\* is failed with the provider's error as failure_reason ("Unknown error"
\* when the provider gives none), the order is unchanged and still in
\* pending_payment, and a later initiate_payment on the order is accepted.
C15_FailedStartLeavesOrderRetryable ==
  [][last'.op = "initiate_payment" =>
       \A oid \in OrderIds, req \in InitiateRequests :
         (/\ orders[oid].status = "pending_payment"
          /\ get_provider(req.code)
          /\ req.start # "success"
          /\ InitiatePayment(oid, req.code, req.start, req.ext))
           => /\ ~last'.ok /\ ~last'.raised
              /\ last'.err = IF req.start = "exception" THEN "exception"
                             ELSE error_message(req.start)
              /\ Len(payments') = Len(payments) + 1
              /\ payments'[Len(payments')].order = oid
              /\ payments'[Len(payments')].status = "failed"
              /\ payments'[Len(payments')].failure_reason =
                   IF last'.err = "" THEN "Unknown error" ELSE last'.err
              /\ orders' = orders
              /\ orders'[oid].status = "pending_payment"
              /\ \A again \in InitiateRequests :
                   get_provider(again.code) =>
                     LET r == initiate_payment(DB', oid, again.code,
                                               again.start, again.ext)
                     IN /\ ~r.raised
                        /\ Len(r.db.payments) = Len(payments') + 1]_vars

C15_Witness ==
  /\ last.op = "initiate_payment" /\ last.ok
  /\ Len(payments) = 2
  /\ payments[1].order = 1 /\ payments[1].status = "failed"
  /\ payments[1].failure_reason = "provider error"
  /\ payments[2].order = 1 /\ payments[2].status = "pending"
  /\ orders[1].status = "pending_payment"

\* C16: after a refund_payment call on which the provider reports success
\* (the call records a successful refund Transaction), a refund of at least
\* the payment's amount leaves the payment refunded and the order refunded,
\* and a smaller one leaves the payment partially_refunded and the order's
\* status as it was; whatever the order's status was before the call.
C16_RefundCascade ==
  [][(/\ last'.op = "refund_payment"
      /\ Len(transactions') = Len(transactions) + 1
      /\ transactions'[Len(transactions')].type = "refund"
      /\ transactions'[Len(transactions')].success)
       => LET pid == last'.arg
              oid == payments[pid].order
              refund_amount == transactions'[Len(transactions')].amount
          IN IF refund_amount >= payments[pid].amount
             THEN /\ payments'[pid].status = "refunded"
                  /\ orders'[oid].status = "refunded"
             ELSE /\ payments'[pid].status = "partially_refunded"
                  /\ orders'[oid].status = orders[oid].status]_vars

\* C17: in every reachable state, refund_payment with a requested amount of
\* zero or below raises before the provider is called, whatever the provider
\* would do: no Transaction is created and no payment or order changes.
C17_NonPositiveRefundRejected ==
  \A pid \in DOMAIN payments, outcome \in ProviderOutcomes :
    \A amount \in {0, 0 - 10000} :
      LET r == refund_payment(DB, pid, amount, outcome)
      IN /\ r.raised
         /\ r.db.transactions = transactions
         /\ r.db.payments = payments
         /\ r.db.orders = orders

\* C18: process_webhook never raises to its caller: for every provider code,
\* signature outcome and provider result it returns a result, and a result
\* without success carries an error.
C18_WebhookNeverRaises ==
  last.op = "process_webhook" =>
    /\ ~last.raised
    /\ (~last.ok => last.err # "")

\* C19: a checkout_flow that fails, for whatever reason, mutates nothing: no
\* order and no order item is left persisted, no status history is written
\* and the cart's items are as they were.
C19_FailedCheckoutMutatesNothing ==
  [][(last'.op = "checkout_flow" /\ ~last'.ok)
       => /\ orders' = orders
          /\ history' = history
          /\ cart' = cart]_vars

\* C20: process_payment_success on an order in pending_payment marks it paid
\* and takes the quantity of each item off the stock of its product when the
\* product tracks inventory and the stock is at least the quantity, and
\* leaves every other stock as it is; on an order in any other status it
\* fails and changes neither the orders nor the stock. No stock is ever
\* negative.
C20_PaymentSuccessDecrements ==
  /\ [](\A p \in Products : stock[p] >= 0)
  /\ [][last'.op = "process_payment_success" =>
          LET oid == last'.arg
              o == orders[oid]
          IN IF o.status = "pending_payment"
             THEN /\ last'.ok
                  /\ orders'[oid].status = "paid"
                  /\ \A p \in Products :
                       stock'[p] = IF track[p] /\ stock[p] >= o.items[p]
                                   THEN stock[p] - o.items[p]
                                   ELSE stock[p]
             ELSE /\ ~last'.ok
                  /\ orders' = orders
                  /\ stock' = stock]_vars

C20_Witness ==
  /\ last.op = "process_payment_success" /\ last.ok
  /\ orders[1].status = "paid"
  /\ track = [pA |-> TRUE, pB |-> TRUE]
  /\ orders[1].items = [pA |-> 1, pB |-> 2]
  /\ stock = [pA |-> 1, pB |-> 1]

\* C21: paid_at, shipped_at and delivered_at of an order are null (0) until
\* mark_as_paid, ship and deliver respectively succeeds, are set by the step
\* that makes that transition, and never change once set.
StampedBy ==
  [paid_at |-> "paid", shipped_at |-> "shipped", delivered_at |-> "delivered"]

C21_StampedOnce ==
  [][\A oid \in DOMAIN orders \cap DOMAIN orders' :
       \A f \in DOMAIN StampedBy :
         LET entered == /\ orders[oid].status # StampedBy[f]
                        /\ orders'[oid].status = StampedBy[f]
         IN /\ orders[oid][f] # 0 => orders'[oid][f] = orders[oid][f]
            /\ (orders[oid][f] = 0 /\ orders'[oid][f] # 0) => entered
            /\ entered => orders'[oid][f] # 0]_vars

\* C22: capture_payment changes the payment's status or an order's status
\* only when the payment is authorized and the provider reports success; on
\* a payment in any other status it raises and writes nothing, whatever the
\* provider would do; and when the provider reports a failure it records one
\* capture Transaction without success and leaves payments and orders as
\* they were.
C22_CaptureFrame ==
  [][last'.op = "capture_payment" =>
       \A pid \in DOMAIN payments, outcome \in ProviderOutcomes :
         CapturePayment(pid, outcome) =>
           /\ payments[pid].status # "authorized" =>
                /\ last'.raised
                /\ UNCHANGED <<orders, payments, transactions, stock,
                               history>>
           /\ (payments' # payments \/ orders' # orders) =>
                payments[pid].status = "authorized" /\ outcome = "success"
           /\ (payments[pid].status = "authorized" /\ outcome = "failure") =>
                /\ ~last'.ok /\ ~last'.raised
                /\ Len(transactions') = Len(transactions) + 1
                /\ SubSeq(transactions', 1, Len(transactions)) = transactions
                /\ transactions'[Len(transactions')].payment = pid
                /\ transactions'[Len(transactions')].type = "capture"
                /\ ~transactions'[Len(transactions')].success
                /\ payments' = payments
                /\ orders' = orders]_vars

C22_Witness ==
  /\ last.op = "capture_payment" /\ ~last.ok /\ ~last.raised
  /\ last.err = "provider error"
  /\ payments[last.arg].status = "authorized"
  /\ transactions[Len(transactions)].type = "capture"
  /\ ~transactions[Len(transactions)].success
  /\ orders[payments[last.arg].order].status = "pending_payment"

\* C23 (a): right after unregister_provider(code) the code is not available
\* and get_provider of it gives None, for every config.
C23_UnregisteredIsGone ==
  last'.op = "unregister_provider" =>
    LET code == last'.arg[1]
    IN /\ ~is_provider_available(registry', code).ret
       /\ \A config \in Configs :
            Registry_get_provider(registry', code, config).ret = <<>>

\* C23 (b): a code that is not available stays so over every call other
\* than register_provider and reload.
C23_StaysGone ==
  last'.op \notin {"register_provider", "reload"} =>
    \A code \in RegistryCodes :
      ~is_provider_available(registry, code).ret =>
        ~is_provider_available(registry', code).ret

\* C23 (c): after reload exactly the codes of the configured classes are
\* available, and get_provider returns no instance made before the reload.
C23_ReloadIsFresh ==
  last'.op = "reload" =>
    \A code \in RegistryCodes :
      /\ is_provider_available(registry', code).ret
           <=> \E cls \in SettingsProviders : ClassCode[cls] = code
      /\ \A config \in Configs :
           LET got == Registry_get_provider(registry', code, config).ret
           IN got # <<>> => got[1].id > registry.created

\* C23: after unregister_provider(code), whether the registry has loaded its
\* configuration or not, the code is not available and get_provider of it
\* returns None until it is registered again or reload is called; after
\* reload exactly the configured providers are available and no instance
\* cached before the reload is returned.
C23_UnregisterAndReload ==
  [][C23_UnregisteredIsGone /\ C23_StaysGone /\ C23_ReloadIsFresh]_vars

\* C24: every Payment in status completed or captured belongs to an order
\* that has made the transition to paid (its paid_at is set).
C24_SuccessfulPaymentHasPaidOrder ==
  \A i \in DOMAIN payments :
    payments[i].status \in {"completed", "captured"} =>
      orders[payments[i].order].paid_at # 0

\* C25: an order has at most one Payment in status completed or captured,
\* whatever initiate_payment retries and webhook deliveries there were.
C25_OneSuccessfulPaymentPerOrder ==
  \A i, j \in DOMAIN payments :
    (/\ payments[i].order = payments[j].order
     /\ payments[i].status \in {"completed", "captured"}
     /\ payments[j].status \in {"completed", "captured"}) => i = j

\* C26: a process_webhook call changes the status of no Payment that is
\* completed, captured, refunded or partially_refunded.
C26_SettledPaymentKeepsStatus ==
  [][last'.op = "process_webhook" =>
       \A i \in DOMAIN payments :
         payments[i].status \in {"completed", "captured", "refunded",
                                 "partially_refunded"}
           => payments'[i].status = payments[i].status]_vars

\* C27: in every reachable state and for every order awaiting payment,
\* process_payment_success followed at once by cancel_order leaves the stock
\* of every product as it was before the payment.
C27_PayThenCancelRestoresStock ==
  \A oid \in DOMAIN orders :
    orders[oid].status = "pending_payment" =>
      LET paid == process_payment_success(DB, oid)
          canceled == cancel_order(paid.db, oid)
      IN /\ paid.ok
         /\ canceled.ok
         /\ canceled.db.stock = stock

\* C28: when process_payment_success has run for two orders with items of
\* the same tracked product, concurrently, the stock of every product is its
\* initial value less the quantities of the items whose decrement was
\* applied.
C28_NoLostStockUpdate ==
  (\A w \in RaceProcs : proc[w].pc = "done") =>
    \A p \in Products :
      stock[p] = proc[1].stock0[p]
                   - (IF p \in proc[1].wStock THEN orders[1].items[p] ELSE 0)
                   - (IF p \in proc[2].wStock THEN orders[2].items[p] ELSE 0)

\* C29: in every reachable state and for every Payment, the amounts of its
\* successful refund Transactions sum to at most payment.amount, and
\* refundable_amount is not negative.
C29_RefundsWithinAmount ==
  \A pid \in DOMAIN payments :
    /\ SumRefunds(transactions, pid, Len(transactions)) <= payments[pid].amount
    /\ refundable_amount(DB, pid) >= 0

C29_Witness ==
  /\ last.op = "refund_payment" /\ last.ok
  /\ SumRefunds(transactions, 1, Len(transactions)) = payments[1].amount
  /\ Cardinality({n \in DOMAIN transactions :
                    /\ transactions[n].type = "refund"
                    /\ transactions[n].success}) = 2

\* C30: unregister_provider(code) changes the registered class and the
\* cached instances of no other code.
C30_UnregisterLeavesOthers ==
  [][last'.op = "unregister_provider" =>
       \A other \in RegistryCodes \ {last'.arg[1]} :
         /\ registry'.providers[other] = registry.providers[other]
         /\ \A config \in Configs :
              registry'.instances[CacheKey(other, config)]
                = registry.instances[CacheKey(other, config)]]_vars

====
